---- MODULE Spec2Model ----
(***************************************************************************)
(* Model of the b3rb position controller, app/b3rb/src/position.c:         *)
(* the worker thread b3rb_position_run with bezier_position_mode, the      *)
(* shell handler b3rb_position_cmd_handler and start().                    *)
(*                                                                         *)
(* Times are unsigned nanoseconds as in the source.  A double is a record  *)
(* [nan, val]: val is an integer, nan marks the result of a division by a  *)
(* zero duration.  C arrays are 0-based, sequences here are 1-based, so    *)
(* curves[curve_index] of the source is curves[curve_index + 1] here.      *)
(***************************************************************************)
EXTENDS Integers, Sequences, FiniteSets, TLC

\* ---------------------------------------------------------------- bounds
\* threads that exist at once in SpecThreads (the source has no limit)
MaxThreads == 2
\* k_uptime_get() returns 0 to MaxUptime milliseconds
MaxUptime == 3
\* capacity of the curves array of a trajectory message
MaxCurves == 2

\* ------------------------------------------------------------- constants
\* k_uptime_get() * 1e6
NsecPerMsec == 1000000
\* offboard_clock_offset.sec * 1e9
NsecPerSec == 1000000000
\* gain_along_track, gain_cross_track, gain_heading
GainAlongTrack == 1
GainCrossTrack == 1
GainHeading == 1

Threads == 1..MaxThreads

\* ------------------------------------------------------------- doubles
Num(v) == [nan |-> FALSE, val |-> v]
NaN == [nan |-> TRUE, val |-> 0]
DAdd(a, b) == IF a.nan \/ b.nan THEN NaN ELSE Num(a.val + b.val)
DMul(a, b) == IF a.nan \/ b.nan THEN NaN ELSE Num(a.val * b.val)

\* ------------------------------------------------------------- messages
\* synapse_msgs_Twist, only linear.x and angular.z are written
Twist(lx, az) == [linear_x |-> lx, angular_z |-> az]
ZeroTwist == Twist(Num(0), Num(0))

ZeroPoints == <<0, 0, 0, 0, 0, 0>>
Curve(stop, px, py) == [time_stop |-> stop, x |-> px, y |-> py]
DefaultCurve == Curve(0, ZeroPoints, ZeroPoints)
\* a trajectory message: the curves array has MaxCurves slots, the slots at
\* and after curves_count hold the message default
Trajectory(start, cs) ==
    [time_start |-> start,
     curves_count |-> Len(cs),
     curves |-> [i \in 1..MaxCurves |-> IF i <= Len(cs) THEN cs[i] ELSE DefaultCurve]]
DefaultTrajectory == Trajectory(0, <<>>)

DefaultTime == [sec |-> 0, nanosec |-> 0]
\* position x, y and orientation z, w of pose.pose
Odometry(px, py, qz, qw) == [x |-> px, y |-> py, qz |-> qz, qw |-> qw]
DefaultOdometry == Odometry(0, 0, 0, 0)
DefaultStatus == [mode |-> "MODE_UNKNOWN"]

\* what the other nodes publish
TrajectoryInputs ==
    { Trajectory(NsecPerMsec,
                 << Curve(2 * NsecPerMsec, <<0, 1, 2, 3, 4, 5>>, ZeroPoints),
                    Curve(3 * NsecPerMsec, <<5, 6, 7, 8, 9, 10>>, ZeroPoints) >>) }
StatusInputs == { [mode |-> "MODE_MANUAL"], [mode |-> "MODE_BEZIER"] }
\* a pose off the path and turned around, and the pose at which the second
\* curve starts
OdometryInputs == { Odometry(1, 1, 1, 0), Odometry(5, 0, 0, 1) }
ClockOffsetInputs == { [sec |-> 0, nanosec |-> NsecPerMsec] }

\* no update available on a subscription
NoUpdate == [none |-> TRUE]

\* ---------------------------------------------------------------- state
VARIABLES
    running,        \* ctx->running
    status,         \* ctx->status
    trajectory,     \* ctx->offboard_bezier_trajectory
    clock_offset,   \* ctx->offboard_clock_offset
    odometry,       \* ctx->estimator_odometry
    cmd_vel,        \* ctx->cmd_vel
    sub_status,     \* update waiting on each subscription, or NoUpdate
    sub_trajectory,
    sub_clock_offset,
    sub_odometry,
    pub_cmd_vel,    \* last message published on topic_cmd_vel, or NoUpdate
    worker,         \* the threads running b3rb_position_run
    sh              \* the shell: the command being handled and its outcome

ctxvars == <<status, trajectory, clock_offset, odometry, cmd_vel>>
subvars == <<sub_status, sub_trajectory, sub_clock_offset, sub_odometry>>
vars == <<running, status, trajectory, clock_offset, odometry, cmd_vel,
          sub_status, sub_trajectory, sub_clock_offset, sub_odometry,
          pub_cmd_vel, worker, sh>>

\* a thread slot: pc "none" is a slot with no thread; the other fields are
\* the locals of b3rb_position_run (rc) and bezier_position_mode
NoThread ==
    [pc |-> "none", rc |-> 0, time_nsec |-> 0, time_start_nsec |-> 0,
     time_stop_nsec |-> 0, curve_index |-> 0]
NewThread == [NoThread EXCEPT !.pc = "init"]

Live(w) == worker[w].pc # "none"
LiveThreads == {w \in DOMAIN worker : Live(w)}

\* ------------------------------------------------------------------ init
\* the state once SYS_INIT has run b3rb_position_sys_init: start() has
\* created the thread, which has not run yet.  slots bounds the threads
\* that can exist at once
InitWith(slots) ==
    /\ running = 0
    /\ status = DefaultStatus
    /\ trajectory = DefaultTrajectory
    /\ clock_offset = DefaultTime
    /\ odometry = DefaultOdometry
    /\ cmd_vel = ZeroTwist
    /\ sub_status = NoUpdate
    /\ sub_trajectory = NoUpdate
    /\ sub_clock_offset = NoUpdate
    /\ sub_odometry = NoUpdate
    /\ pub_cmd_vel = NoUpdate
    /\ worker = [w \in slots |-> IF w = 1 THEN NewThread ELSE NoThread]
    /\ sh = [argc |-> 0, argv0 |-> "", out |-> "", ret |-> 0]

\* one thread object, as the source declares: a start() that finds it in use
\* restarts it
Init == InitWith({1})
\* start() on a thread object in use may also leave the old thread running
InitThreads == InitWith(Threads)

\* ------------------------------------------------------ numeric functions
\* 2 * atan2(z, w) for the axis-aligned orientations, in quarter turns
\* (units of pi/2); atan2(0, 0) is 0
TwiceAtan2(z, w) ==
    IF z = 0 THEN (IF w >= 0 THEN 0 ELSE 4)
    ELSE IF z > 0 THEN 2 ELSE -2

\* bezier6_rover:(t,T,PX[1x6],PY[1x6],L)->(x,y,psi,V,omega), t and T in
\* nanoseconds.  The generated function divides by T: a zero duration gives
\* no number.  The curve runs from its first control point (t = 0) to its
\* last (t = T); the speed is per millisecond.
bezier6_rover(t, T, PX, PY) ==
    IF T = 0
    THEN [x |-> NaN, y |-> NaN, psi |-> NaN, V |-> NaN, omega |-> NaN]
    ELSE [x |-> Num(PX[1] + ((PX[6] - PX[1]) * t) \div T),
          y |-> Num(PY[1] + ((PY[6] - PY[1]) * t) \div T),
          psi |-> Num(0),
          V |-> Num(((PX[6] - PX[1]) * NsecPerMsec) \div T),
          omega |-> Num(0)]

\* cosine and sine of k quarter turns
CosQ(k) == CASE k % 4 = 0 -> 1 [] k % 4 = 2 -> -1 [] OTHER -> 0
SinQ(k) == CASE k % 4 = 1 -> 1 [] k % 4 = 3 -> -1 [] OTHER -> 0
\* a heading difference wrapped into (-pi, pi], in quarter turns
WrapQ(k) == ((k + 1) % 4) - 1

\* se2_error:(p[3],r[3])->(error[3]): the difference r - p of the positions
\* turned into the frame of the vehicle heading p[3], and the wrapped
\* difference of the headings
se2_error(p, r) ==
    IF r[1].nan \/ r[2].nan \/ r[3].nan
    THEN <<NaN, NaN, NaN>>
    ELSE LET dx == r[1].val - p[1].val
             dy == r[2].val - p[2].val
             th == p[3].val
         IN << Num(CosQ(th) * dx + SinQ(th) * dy),
               Num(CosQ(th) * dy - SinQ(th) * dx),
               Num(WrapQ(r[3].val - th)) >>

\* -------------------------------------------------------- the controller
\* b3rb_position_stop
b3rb_position_stop(cv) == [cv EXCEPT !.linear_x = Num(0), !.angular_z = Num(0)]

\* the current time of bezier_position_mode, line 112
TimeNow(up, off) == up * NsecPerMsec + off.sec * NsecPerSec + off.nanosec

\* the control law with the along-track correction taken off the speed
ControlLaw_MinusAlong(lw, traj, odom) ==
    LET T == lw.time_stop_nsec - lw.time_start_nsec
        t == lw.time_nsec - lw.time_start_nsec
        c == traj.curves[lw.curve_index + 1]
        ref == bezier6_rover(t, T, c.x, c.y)
        p == <<Num(odom.x), Num(odom.y), Num(TwiceAtan2(odom.qz, odom.qw))>>
        e == se2_error(p, <<ref.x, ref.y, ref.psi>>)
    IN Twist(DAdd(ref.V, DMul(Num(-GainAlongTrack), e[1])),
             DAdd(ref.omega, DAdd(DMul(Num(GainCrossTrack), e[2]),
                                  DMul(Num(GainHeading), e[3]))))

\* lines 147-197 of bezier_position_mode: the command of the control law for
\* the locals lw of a worker
ControlLaw(lw, traj, odom) ==
    LET T == lw.time_stop_nsec - lw.time_start_nsec
        t == lw.time_nsec - lw.time_start_nsec
        c == traj.curves[lw.curve_index + 1]
        ref == bezier6_rover(t, T, c.x, c.y)
        p == <<Num(odom.x), Num(odom.y), Num(TwiceAtan2(odom.qz, odom.qw))>>
        e == se2_error(p, <<ref.x, ref.y, ref.psi>>)
    IN Twist(DAdd(ref.V, DMul(Num(GainAlongTrack), e[1])),
             DAdd(ref.omega, DAdd(DMul(Num(GainCrossTrack), e[2]),
                                  DMul(Num(GainHeading), e[3]))))

\* zros_sub_update when zros_sub_update_available: the retained copy after
\* the drain of a subscription
Drained(sub, retained) == IF sub = NoUpdate THEN retained ELSE sub

\* ------------------------------------------------------- worker thread
\* b3rb_position_init, run by the new thread: sets the run flag
ThreadInit(w) ==
    /\ worker[w].pc = "init"
    /\ running' = 1
    /\ worker' = [worker EXCEPT ![w].pc = "top"]
    /\ UNCHANGED <<ctxvars, subvars, pub_cmd_vel, sh>>

\* while (true) { int rc = 0; rc = k_poll(...): the thread blocks
LoopTop(w) ==
    /\ worker[w].pc = "top"
    /\ worker' = [worker EXCEPT ![w].pc = "wait", ![w].rc = 0]
    /\ UNCHANGED <<running, ctxvars, subvars, pub_cmd_vel, sh>>

\* a timeout that leaves the loop (break for continue) and so runs
\* b3rb_position_fini
PollTimeout_Break(w) ==
    /\ worker[w].pc = "wait"
    /\ sub_odometry = NoUpdate
    /\ running' = 0
    /\ worker' = [worker EXCEPT ![w] = NoThread]
    /\ UNCHANGED <<ctxvars, subvars, pub_cmd_vel, sh>>

\* a timeout whose continue comes after the drains
PollTimeout_Drains(w) ==
    /\ worker[w].pc = "wait"
    /\ sub_odometry = NoUpdate
    /\ trajectory' = Drained(sub_trajectory, trajectory)
    /\ status' = Drained(sub_status, status)
    /\ clock_offset' = Drained(sub_clock_offset, clock_offset)
    /\ sub_trajectory' = NoUpdate
    /\ sub_status' = NoUpdate
    /\ sub_clock_offset' = NoUpdate
    /\ worker' = [worker EXCEPT ![w].pc = "top", ![w].rc = -11]
    /\ UNCHANGED <<running, odometry, sub_odometry, cmd_vel, pub_cmd_vel, sh>>

\* k_poll returns non-zero (no odometry within K_MSEC(1000)): continue
PollTimeout(w) ==
    /\ worker[w].pc = "wait"
    /\ sub_odometry = NoUpdate
    /\ worker' = [worker EXCEPT ![w].pc = "top", ![w].rc = -11]
    /\ UNCHANGED <<running, ctxvars, subvars, pub_cmd_vel, sh>>

\* a wake whose drain of the status subscription is missing: the gate then
\* tests the mode of an earlier cycle
Wake_StaleMode(w) ==
    /\ worker[w].pc = "wait"
    /\ sub_odometry # NoUpdate
    /\ trajectory' = Drained(sub_trajectory, trajectory)
    /\ odometry' = Drained(sub_odometry, odometry)
    /\ clock_offset' = Drained(sub_clock_offset, clock_offset)
    /\ sub_trajectory' = NoUpdate
    /\ sub_odometry' = NoUpdate
    /\ sub_clock_offset' = NoUpdate
    /\ worker' = [worker EXCEPT ![w].pc = "gate", ![w].rc = 0]
    /\ UNCHANGED <<running, status, sub_status, cmd_vel, pub_cmd_vel, sh>>

\* k_poll returns 0 on the odometry event, then the four drains in order
Wake(w) ==
    /\ worker[w].pc = "wait"
    /\ sub_odometry # NoUpdate
    /\ trajectory' = Drained(sub_trajectory, trajectory)
    /\ status' = Drained(sub_status, status)
    /\ odometry' = Drained(sub_odometry, odometry)
    /\ clock_offset' = Drained(sub_clock_offset, clock_offset)
    /\ sub_trajectory' = NoUpdate
    /\ sub_status' = NoUpdate
    /\ sub_odometry' = NoUpdate
    /\ sub_clock_offset' = NoUpdate
    /\ worker' = [worker EXCEPT ![w].pc = "gate", ![w].rc = 0]
    /\ UNCHANGED <<running, cmd_vel, pub_cmd_vel, sh>>

\* the mode gate without its test: every mode is let through
ModeGate_Open(st) == TRUE

\* ctx->status.mode == synapse_msgs_Status_Mode_MODE_BEZIER
ModeGate(st) == st.mode = "MODE_BEZIER"

\* if (mode == MODE_BEZIER): enter bezier_position_mode and compute its
\* times (lines 108-112), else back to the top of the loop.  k_uptime_get()
\* is an input: any value from 0 to MaxUptime
Gate(w) ==
    /\ worker[w].pc = "gate"
    /\ IF ModeGate(status)
       THEN \E uptime \in 0..MaxUptime :
              worker' = [worker EXCEPT
                ![w].pc = "bez",
                ![w].time_start_nsec = trajectory.time_start,
                ![w].time_stop_nsec = trajectory.time_start,
                ![w].time_nsec = TimeNow(uptime, clock_offset)]
       ELSE worker' = [worker EXCEPT ![w].pc = "top"]
    /\ UNCHANGED <<running, ctxvars, subvars, pub_cmd_vel, sh>>

\* the test of line 114 with the comparison turned around
BeforeStart_Reversed(t, t_start) == t > t_start

\* time_nsec < time_start_nsec
BeforeStart(t, t_start) == t < t_start

\* if (time_nsec < time_start_nsec) { b3rb_position_stop; return; }
\* else int curve_index = 0 and on to the loop
TimeCheck(w) ==
    /\ worker[w].pc = "bez"
    /\ IF BeforeStart(worker[w].time_nsec, worker[w].time_start_nsec)
       THEN /\ cmd_vel' = b3rb_position_stop(cmd_vel)
            /\ worker' = [worker EXCEPT ![w].pc = "publish"]
       ELSE /\ cmd_vel' = cmd_vel
            /\ worker' = [worker EXCEPT ![w].pc = "loop", ![w].curve_index = 0]
    /\ UNCHANGED <<running, status, trajectory, clock_offset, odometry,
                   subvars, pub_cmd_vel, sh>>

\* the loop condition of the locator: while (atomic_get(&ctx->running))
LoopCondition(r) == r # 0

\* one pass of the while loop of lines 125-145 on the locals lw, with the
\* run flag read as r: the locals after the pass.  pc "sample" is the end of
\* the loop (by break, or by the loop condition), pc "publish" the return
\* after b3rb_position_stop, pc "loop" another pass
LocatorPass(lw, r, traj) ==
    LET i == lw.curve_index
    IN IF ~LoopCondition(r)
       THEN \* the loop ends without a break
            [lw EXCEPT !.pc = "sample"]
       ELSE IF lw.time_nsec < traj.curves[i + 1].time_stop
       THEN [lw EXCEPT
               !.pc = "sample",
               !.time_stop_nsec = traj.curves[i + 1].time_stop,
               !.time_start_nsec =
                   IF i > 0 THEN traj.curves[i].time_stop
                   ELSE lw.time_start_nsec]
       ELSE IF i + 1 >= traj.curves_count
       THEN [lw EXCEPT !.pc = "publish", !.curve_index = i + 1]
       ELSE [lw EXCEPT !.curve_index = i + 1]

\* a pass of the loop whose return at the end of the trajectory leaves out
\* b3rb_position_stop
LocatorStep_NoStop(w) ==
    /\ worker[w].pc = "loop"
    /\ worker' = [worker EXCEPT ![w] = LocatorPass(worker[w], running, trajectory)]
    /\ UNCHANGED <<running, ctxvars, subvars, pub_cmd_vel, sh>>

\* the thread takes one pass of the loop; the return at the end of the
\* trajectory (lines 140-144) stops the vehicle first
LocatorStep(w) ==
    /\ worker[w].pc = "loop"
    /\ LET nl == LocatorPass(worker[w], running, trajectory)
       IN /\ worker' = [worker EXCEPT ![w] = nl]
          /\ cmd_vel' = IF nl.pc = "publish"
                        THEN b3rb_position_stop(cmd_vel) ELSE cmd_vel
    /\ UNCHANGED <<running, status, trajectory, clock_offset, odometry,
                   subvars, pub_cmd_vel, sh>>

\* lines 147-197: the sampler, the pose error and the control law
Sample(w) ==
    /\ worker[w].pc = "sample"
    /\ cmd_vel' = ControlLaw(worker[w], trajectory, odometry)
    /\ worker' = [worker EXCEPT ![w].pc = "publish"]
    /\ UNCHANGED <<running, status, trajectory, clock_offset, odometry,
                   subvars, pub_cmd_vel, sh>>

\* bezier_position_mode from the place lw.pc on, with the run flag read as r
\* at every pass of the loop: the command in ctx->cmd_vel when it returns
RECURSIVE bezier_position_mode(_, _, _, _, _)
bezier_position_mode(lw, r, traj, odom, cv) ==
    IF lw.pc = "bez"
    THEN IF BeforeStart(lw.time_nsec, lw.time_start_nsec)
         THEN b3rb_position_stop(cv)
         ELSE bezier_position_mode([lw EXCEPT !.pc = "loop", !.curve_index = 0],
                                   r, traj, odom, cv)
    ELSE IF lw.pc = "loop"
    THEN LET nl == LocatorPass(lw, r, traj)
         IN IF nl.pc = "publish" THEN b3rb_position_stop(cv)
            ELSE bezier_position_mode(nl, r, traj, odom, cv)
    ELSE IF lw.pc = "sample"
    THEN ControlLaw(lw, traj, odom)
    ELSE cv

\* the end of the loop body without the zros_pub_update
Publish_NoUpdate(w) ==
    /\ worker[w].pc = "publish"
    /\ worker' = [worker EXCEPT ![w] = [NoThread EXCEPT !.pc = "top"]]
    /\ UNCHANGED <<running, ctxvars, subvars, pub_cmd_vel, sh>>

\* zros_pub_update(&ctx->pub_cmd_vel), and the end of the loop body
Publish(w) ==
    /\ worker[w].pc = "publish"
    /\ pub_cmd_vel' = cmd_vel
    /\ worker' = [worker EXCEPT ![w] = [NoThread EXCEPT !.pc = "top"]]
    /\ UNCHANGED <<running, ctxvars, subvars, sh>>

\* ----------------------------------------------------------- lifecycle
\* start(): k_thread_create and k_thread_start on ctx->thread_data.  With no
\* thread alive this creates the one thread.  With a thread alive the call
\* reuses a thread object and a stack that are in use, which the kernel does
\* not define: the new thread runs beside the old one (while a slot is
\* free), or takes its place
start(wk) ==
    { [wk EXCEPT ![w] = NewThread] :
        w \in {v \in DOMAIN wk :
                 \/ wk[v].pc # "none"
                 \/ /\ wk[v].pc = "none"
                    /\ \A u \in DOMAIN wk : u < v => wk[u].pc # "none"} }

ShellCommands == {"start", "stop", "status"}

\* the branches of b3rb_position_cmd_handler on argv[0], lines 268-283: the
\* run flag and the threads after the call, what it prints and returns
CmdDispatch(argv0, r, wk) ==
    IF argv0 = "start"
    THEN IF r # 0
         THEN {[running |-> r, worker |-> wk, out |-> "already running", ret |-> 0]}
         ELSE {[running |-> r, worker |-> nw, out |-> "", ret |-> 0] : nw \in start(wk)}
    ELSE IF argv0 = "stop"
    THEN IF r # 0
         THEN {[running |-> 0, worker |-> wk, out |-> "", ret |-> 0]}
         ELSE {[running |-> r, worker |-> wk, out |-> "not running", ret |-> 0]}
    ELSE IF argv0 = "status"
    THEN {[running |-> r, worker |-> wk,
           out |-> IF r # 0 THEN "running: 1" ELSE "running: 0", ret |-> 0]}
    ELSE {[running |-> r, worker |-> wk, out |-> "", ret |-> 0]}

\* the handler without its argument count check
CmdOutcome_NoArgcCheck(argc, argv0, r, wk) == CmdDispatch(argv0, r, wk)

\* b3rb_position_cmd_handler: if (argc != 1) return -1, else the branches
CmdOutcome(argc, argv0, r, wk) ==
    IF argc # 1
    THEN {[running |-> r, worker |-> wk, out |-> "", ret |-> -1]}
    ELSE CmdDispatch(argv0, r, wk)

\* the shell calls b3rb_position_cmd_handler with a command line; sh keeps
\* the call and what it printed and returned
CmdHandler ==
    \E argv0 \in ShellCommands, argc \in {1, 2} :
      \E o \in CmdOutcome(argc, argv0, running, worker) :
          /\ running' = o.running
          /\ worker' = o.worker
          /\ sh' = [argc |-> argc, argv0 |-> argv0, out |-> o.out, ret |-> o.ret]
          /\ UNCHANGED <<ctxvars, subvars, pub_cmd_vel>>

\* --------------------------------------------------------- environment
\* the other nodes publish on the subscribed topics (last value wins)
PubTrajectory ==
    /\ \E m \in TrajectoryInputs : sub_trajectory' = m
    /\ UNCHANGED <<running, ctxvars, sub_status, sub_clock_offset, sub_odometry,
                   pub_cmd_vel, worker, sh>>

PubStatus ==
    /\ \E m \in StatusInputs : sub_status' = m
    /\ UNCHANGED <<running, ctxvars, sub_trajectory, sub_clock_offset, sub_odometry,
                   pub_cmd_vel, worker, sh>>

PubOdometry ==
    /\ \E m \in OdometryInputs : sub_odometry' = m
    /\ UNCHANGED <<running, ctxvars, sub_status, sub_trajectory, sub_clock_offset,
                   pub_cmd_vel, worker, sh>>

PubClockOffset ==
    /\ \E m \in ClockOffsetInputs : sub_clock_offset' = m
    /\ UNCHANGED <<running, ctxvars, sub_status, sub_trajectory, sub_odometry,
                   pub_cmd_vel, worker, sh>>

\* ------------------------------------------------------- specification
Next ==
    \/ \E w \in DOMAIN worker : ThreadInit(w)
    \/ \E w \in DOMAIN worker : LoopTop(w)
    \/ \E w \in DOMAIN worker : PollTimeout(w)
    \/ \E w \in DOMAIN worker : Wake(w)
    \/ \E w \in DOMAIN worker : Gate(w)
    \/ \E w \in DOMAIN worker : TimeCheck(w)
    \/ \E w \in DOMAIN worker : LocatorStep(w)
    \/ \E w \in DOMAIN worker : Sample(w)
    \/ \E w \in DOMAIN worker : Publish(w)
    \/ CmdHandler
    \/ PubTrajectory
    \/ PubStatus
    \/ PubOdometry
    \/ PubClockOffset

Spec == Init /\ [][Next]_vars

\* the lifecycle with several threads: the trajectory and the clock offset
\* keep their defaults
NextThreads ==
    \/ \E w \in DOMAIN worker : ThreadInit(w)
    \/ \E w \in DOMAIN worker : LoopTop(w)
    \/ \E w \in DOMAIN worker : PollTimeout(w)
    \/ \E w \in DOMAIN worker : Wake(w)
    \/ \E w \in DOMAIN worker : Gate(w)
    \/ \E w \in DOMAIN worker : TimeCheck(w)
    \/ \E w \in DOMAIN worker : LocatorStep(w)
    \/ \E w \in DOMAIN worker : Sample(w)
    \/ \E w \in DOMAIN worker : Publish(w)
    \/ CmdHandler
    \/ PubStatus
    \/ PubOdometry

SpecThreads == InitThreads /\ [][NextThreads]_vars

\* ---------------------------------------------------------------- claims
\* thread w takes a step of its own out of the place at: its pc leaves at,
\* and it is not a start() that puts a new thread in its slot
Leaves(w, at) ==
    /\ worker[w].pc = at
    /\ worker'[w].pc # at
    /\ worker'[w].pc # "init"

C2_BeforeStartStops ==
    [][\A w \in DOMAIN worker :
          Leaves(w, "bez") /\ worker[w].time_nsec < worker[w].time_start_nsec
          => worker'[w].pc = "publish" /\ cmd_vel' = ZeroTwist]_vars

\* an evaluation before time_start has stopped the vehicle and is about to
\* publish, with the run flag cleared
C2_Witness ==
    \E w \in DOMAIN worker :
        /\ worker[w].pc = "publish"
        /\ worker[w].time_nsec < worker[w].time_start_nsec
        /\ worker[w].time_start_nsec = trajectory.time_start
        /\ cmd_vel = ZeroTwist
        /\ running = 0

\* the evaluation of thread w is past the end of a trajectory that has
\* segments: its current time is at or after every time_stop
PastEnd(w) ==
    /\ worker[w].pc \in {"loop", "sample", "publish"}
    /\ trajectory.curves_count > 0
    /\ \A i \in 1..trajectory.curves_count :
          worker[w].time_nsec >= trajectory.curves[i].time_stop

\* C3: an evaluation whose current time is at or after the time_stop of
\* every segment samples no curve and has (0, 0) as the command it publishes
C3_PastEndStops ==
    \A w \in DOMAIN worker :
        PastEnd(w) => /\ worker[w].pc # "sample"
                      /\ worker[w].pc = "publish" => cmd_vel = ZeroTwist

\* the time_stop values of the segments of a trajectory do not decrease
NonDecreasing(traj) ==
    \A i \in 1..traj.curves_count : \A j \in i..traj.curves_count :
        traj.curves[i].time_stop <= traj.curves[j].time_stop

\* the indices (0-based) whose time_stop exceeds t while the predecessor's
\* does not
ActiveSegments(traj, t) ==
    {i \in 0..(traj.curves_count - 1) :
        /\ traj.curves[i + 1].time_stop > t
        /\ i = 0 \/ traj.curves[i].time_stop <= t}

\* C4: for non-decreasing end times and time_start <= t_now < the last
\* time_stop, the locator hands the sampler the one segment whose time_stop
\* exceeds t_now while its predecessor's does not, with the window from the
\* predecessor's time_stop (time_start for the first segment) to its own
C4_LocatorSelectsSegment ==
    \A w \in DOMAIN worker :
        /\ worker[w].pc = "sample"
        /\ trajectory.curves_count > 0
        /\ NonDecreasing(trajectory)
        /\ trajectory.time_start <= worker[w].time_nsec
        /\ worker[w].time_nsec < trajectory.curves[trajectory.curves_count].time_stop
        => LET i == worker[w].curve_index
           IN /\ ActiveSegments(trajectory, worker[w].time_nsec) = {i}
              /\ worker[w].time_stop_nsec = trajectory.curves[i + 1].time_stop
              /\ worker[w].time_start_nsec =
                    IF i = 0 THEN trajectory.time_start
                    ELSE trajectory.curves[i].time_stop

\* C5: a wait that ends without a pose sample publishes nothing, leaves the
\* command and the run flag as they were and takes the thread back to the
\* top of the loop, alive
C5_TimeoutKeepsWaiting ==
    [][\A w \in DOMAIN worker :
          Leaves(w, "wait") /\ sub_odometry = NoUpdate
          => /\ worker'[w].pc = "top"
             /\ worker'[w].rc # 0
             /\ running' = running
             /\ cmd_vel' = cmd_vel
             /\ pub_cmd_vel' = pub_cmd_vel]_vars

\* a thread is back at the top of the loop after a timeout while the run
\* flag is set and a status query has reported it
C5_Witness ==
    \E w \in DOMAIN worker :
        /\ worker[w].pc = "top"
        /\ worker[w].rc # 0
        /\ running = 1
        /\ sh.argv0 = "status"
        /\ sh.out = "running: 1"

\* a step creates a thread: start() has run
ThreadCreated ==
    \E w \in DOMAIN worker : worker'[w].pc = "init" /\ worker[w].pc # "init"

\* C6: after a start, a second start with no other command between reports
\* "already running" and creates no thread; after a stop that cleared the
\* flag, a second stop reports "not running"
C6_SecondStartSecondStop ==
    [][/\ (sh.argc = 1 /\ sh.argv0 = "start")
          => /\ ~ThreadCreated
             /\ (sh' # sh /\ sh'.argc = 1 /\ sh'.argv0 = "start")
                => sh'.out = "already running"
       /\ (sh.argc = 1 /\ sh.argv0 = "stop" /\ sh.out = "")
          => ((sh' # sh /\ sh'.argc = 1 /\ sh'.argv0 = "stop")
                => sh'.out = "not running")]_vars

\* threads that have run b3rb_position_init and are in the control loop
LoopThreads == {w \in DOMAIN worker : worker[w].pc \notin {"none", "init"}}

\* a stop has cleared the run flag and no start has followed it
StopInEffect ==
    /\ running = 0
    /\ LoopThreads # {}
    /\ \A w \in DOMAIN worker : worker[w].pc # "init"

\* C7: once a stop has cleared the run flag the loop ends: no thread goes
\* from the top of the loop into another wait
C7_StopEndsLoop ==
    [][StopInEffect
       => ~ \E w \in DOMAIN worker :
               worker[w].pc = "top" /\ worker'[w].pc = "wait"]_vars

\* C8: at most one thread executes the control loop
C8_OneWorker == Cardinality(LoopThreads) <= 1

\* C9: the run flag is set exactly when a thread is in the control loop (a
\* thread counts from the moment it has run b3rb_position_init)
C9_FlagIffWorker == (running = 1) <=> (LoopThreads # {})

\* C10: a call with a wrong argument count returns -1, a start while the
\* flag is set prints "already running" and returns 0, a stop while the flag
\* is clear prints "not running" and returns 0; each leaves the run flag,
\* the threads, the retained messages, the command and the topics unchanged
C10_MisuseChangesNothing ==
    [][sh' # sh
       => LET misuse == \/ sh'.argc # 1
                        \/ sh'.argv0 = "start" /\ running # 0
                        \/ sh'.argv0 = "stop" /\ running = 0
          IN /\ misuse => UNCHANGED <<running, worker, ctxvars, subvars, pub_cmd_vel>>
             /\ sh'.argc # 1 => sh'.ret = -1
             /\ (sh'.argc = 1 /\ sh'.argv0 = "start" /\ running # 0)
                => sh'.out = "already running" /\ sh'.ret = 0
             /\ (sh'.argc = 1 /\ sh'.argv0 = "stop" /\ running = 0)
                => sh'.out = "not running" /\ sh'.ret = 0]_vars

\* a start has been refused while a thread is in the loop and a command has
\* been published
C10_Witness ==
    /\ sh.argc = 1
    /\ sh.argv0 = "start"
    /\ sh.out = "already running"
    /\ running = 1
    /\ LoopThreads # {}
    /\ pub_cmd_vel # NoUpdate

\* the places of a thread inside bezier_position_mode
InFlight == {"bez", "loop", "sample"}

\* C11: a stop that clears the run flag while an evaluation of
\* bezier_position_mode is in flight does not alter the command of that
\* cycle: the command the evaluation ends with after the stop is the one it
\* would have ended with had the flag stayed set
C11_StopInFlightKeepsCommand ==
    [][\A w \in DOMAIN worker :
          /\ running # 0
          /\ running' = 0
          /\ worker[w].pc \in InFlight
          => bezier_position_mode(worker[w], running', trajectory, odometry, cmd_vel)
             = bezier_position_mode(worker[w], running, trajectory, odometry, cmd_vel)]_vars

\* thread w takes a step of its own: its locals or its place change, and it
\* is not a start() that puts a new thread in its slot
Steps(w) == worker'[w] # worker[w] /\ worker'[w].pc # "init"

\* C12: in a cycle woken by a pose sample the gate is passed once: from the
\* gate the thread enters bezier_position_mode exactly when the retained mode
\* is MODE_BEZIER and goes back to the top of the loop otherwise; the
\* evaluation is entered from nowhere but the gate, is not entered again in
\* the cycle, and ends at the publish and nowhere else; the publish sends
\* cmd_vel once and ends the cycle; no other step writes the topic
C12_OneEvaluationOnePublish ==
    [][/\ \A w \in DOMAIN worker :
            /\ Leaves(w, "gate")
               => /\ worker'[w].pc = IF status.mode = "MODE_BEZIER"
                                     THEN "bez" ELSE "top"
                  /\ pub_cmd_vel' = pub_cmd_vel
            /\ worker'[w].pc = "bez" /\ worker[w].pc # "bez"
               => worker[w].pc = "gate" /\ status.mode = "MODE_BEZIER"
            /\ worker[w].pc \in InFlight /\ Steps(w)
               => /\ worker'[w].pc \in {"loop", "sample", "publish"}
                  /\ pub_cmd_vel' = pub_cmd_vel
            /\ worker'[w].pc = "publish" /\ worker[w].pc # "publish"
               => worker[w].pc \in InFlight
            /\ Leaves(w, "publish")
               => worker'[w].pc = "top" /\ pub_cmd_vel' = cmd_vel
       /\ pub_cmd_vel' # pub_cmd_vel
          => \E w \in DOMAIN worker : Leaves(w, "publish")]_vars

\* a cycle in MODE_BEZIER has published the command of the control law and
\* is back at the top of the loop
C12_Witness ==
    \E w \in DOMAIN worker :
        /\ worker[w].pc = "top"
        /\ worker[w].rc = 0
        /\ status.mode = "MODE_BEZIER"
        /\ pub_cmd_vel = cmd_vel
        /\ pub_cmd_vel # ZeroTwist
        /\ ~pub_cmd_vel.linear_x.nan

\* the retained copy new is the latest value of a topic: the update that was
\* pending on the subscription, or the copy old when none was pending
Latest(new, pending, old) ==
    /\ pending # NoUpdate => new = pending
    /\ pending = NoUpdate => new = old

\* C13: the steps of a cycle come in the order wait, drains, gate,
\* evaluation, publish.  The wake on the pose event drains the four
\* subscriptions, so that each retained copy is the latest value of its
\* topic, and leads to the gate and to nothing else; the retained copies
\* change in no other step, so the mode tested at the gate, the trajectory
\* start and the clock offset read on entry of the evaluation and the
\* trajectory and pose given to the control law are those of the drains
C13_DrainsBeforeGate ==
    [][/\ \A w \in DOMAIN worker :
            /\ Leaves(w, "wait") /\ sub_odometry # NoUpdate
               => /\ worker'[w].pc = "gate"
                  /\ Latest(trajectory', sub_trajectory, trajectory)
                  /\ Latest(status', sub_status, status)
                  /\ Latest(odometry', sub_odometry, odometry)
                  /\ Latest(clock_offset', sub_clock_offset, clock_offset)
            /\ worker'[w].pc = "gate" /\ worker[w].pc # "gate"
               => worker[w].pc = "wait" /\ sub_odometry # NoUpdate
            /\ Leaves(w, "gate") /\ worker'[w].pc = "bez"
               => /\ status.mode = "MODE_BEZIER"
                  /\ worker'[w].time_start_nsec = trajectory.time_start
                  /\ \E up \in 0..MaxUptime :
                       worker'[w].time_nsec =
                           up * NsecPerMsec + clock_offset.sec * NsecPerSec
                           + clock_offset.nanosec
            /\ Leaves(w, "sample")
               => cmd_vel' = ControlLaw(worker[w], trajectory, odometry)
       /\ <<status, trajectory, odometry, clock_offset>>'
            # <<status, trajectory, odometry, clock_offset>>
          => \E w \in DOMAIN worker :
               Leaves(w, "wait") /\ worker'[w].pc = "gate"]_vars

\* an evaluation has located a segment and is about to sample it, with the
\* mode, trajectory, pose and clock offset all received in drains
C13_Witness ==
    \E w \in DOMAIN worker :
        /\ worker[w].pc = "sample"
        /\ worker[w].time_stop_nsec > worker[w].time_start_nsec
        /\ status.mode = "MODE_BEZIER"
        /\ trajectory \in TrajectoryInputs
        /\ odometry \in OdometryInputs
        /\ clock_offset \in ClockOffsetInputs

\* the pending trajectory, mode and clock-offset updates are merged into the
\* retained state in this step, and are pending no more
MergesPending ==
    /\ Latest(trajectory', sub_trajectory, trajectory)
    /\ Latest(status', sub_status, status)
    /\ Latest(clock_offset', sub_clock_offset, clock_offset)
    /\ sub_trajectory' = NoUpdate
    /\ sub_status' = NoUpdate
    /\ sub_clock_offset' = NoUpdate

\* C14, as claimed: on every return of the wait, by the pose event or by the
\* timeout, the pending trajectory, mode and clock-offset updates are merged
\* into the retained state in that cycle
C14_EveryWakeMerges ==
    [][\A w \in DOMAIN worker : Leaves(w, "wait") => MergesPending]_vars

\* C14, amended: a return of the wait by the pose event merges the pending
\* trajectory, mode and clock-offset updates into the retained state in that
\* cycle; a return by the timeout merges nothing: the retained state is as
\* it was and every pending update stays pending
C14_PoseWakeMerges ==
    [][\A w \in DOMAIN worker :
          Leaves(w, "wait")
          => IF sub_odometry # NoUpdate
             THEN MergesPending
             ELSE UNCHANGED <<ctxvars, subvars>>]_vars

\* the wait has timed out with a trajectory, a mode and a clock offset
\* pending, none of them retained yet: they are pending still
C14_Witness ==
    \E w \in DOMAIN worker :
        /\ worker[w].pc = "top"
        /\ worker[w].rc # 0
        /\ sub_trajectory # NoUpdate /\ trajectory = DefaultTrajectory
        /\ sub_status # NoUpdate /\ status = DefaultStatus
        /\ sub_clock_offset # NoUpdate /\ clock_offset = DefaultTime

\* the locator has yielded a valid segment for the locals lw: an index of
\* the trajectory, with the window of that segment around the current time
ValidSegment(lw, traj) ==
    /\ lw.curve_index < traj.curves_count
    /\ lw.time_stop_nsec = traj.curves[lw.curve_index + 1].time_stop
    /\ lw.time_start_nsec <= lw.time_nsec
    /\ lw.time_nsec < lw.time_stop_nsec

\* the reference sampled from the segment of the locals lw
Reference(lw, traj) ==
    bezier6_rover(lw.time_nsec - lw.time_start_nsec,
                  lw.time_stop_nsec - lw.time_start_nsec,
                  traj.curves[lw.curve_index + 1].x,
                  traj.curves[lw.curve_index + 1].y)

\* the error between the retained pose and that reference
PoseError(lw, traj, odom) ==
    LET ref == Reference(lw, traj)
    IN se2_error(<<Num(odom.x), Num(odom.y),
                   Num(TwiceAtan2(odom.qz, odom.qw))>>,
                 <<ref.x, ref.y, ref.psi>>)

\* C15: a cycle in MODE_BEZIER whose locator has yielded a valid segment
\* publishes exactly forward speed V + gain_along * e_along and turn rate
\* omega + gain_cross * e_cross + gain_heading * e_heading, with (V, omega)
\* sampled from that segment and e the error between the retained pose and
\* the sampled reference; nothing is clamped, and with the three errors zero
\* the command is the feed-forward (V, omega)
C15_PublishedControlLaw ==
    [][\A w \in DOMAIN worker :
          /\ Leaves(w, "publish")
          /\ status.mode = "MODE_BEZIER"
          /\ ValidSegment(worker[w], trajectory)
          => LET ref == Reference(worker[w], trajectory)
                 e == PoseError(worker[w], trajectory, odometry)
             IN /\ pub_cmd_vel'.linear_x =
                       Num(ref.V.val + GainAlongTrack * e[1].val)
                /\ pub_cmd_vel'.angular_z =
                       Num(ref.omega.val + GainCrossTrack * e[2].val
                                         + GainHeading * e[3].val)
                /\ e = <<Num(0), Num(0), Num(0)>>
                   => pub_cmd_vel' = Twist(ref.V, ref.omega)]_vars

\* a cycle in MODE_BEZIER is about to publish the command of a valid segment
\* for a pose with an along-track, a cross-track and a heading error
C15_Witness ==
    \E w \in DOMAIN worker :
        /\ worker[w].pc = "publish"
        /\ status.mode = "MODE_BEZIER"
        /\ ValidSegment(worker[w], trajectory)
        /\ LET e == PoseError(worker[w], trajectory, odometry)
           IN e[1].val # 0 /\ e[2].val # 0 /\ e[3].val # 0
        /\ cmd_vel # ZeroTwist
        /\ cmd_vel # pub_cmd_vel

\* a cycle in MODE_BEZIER is about to publish the command of a valid segment
\* for a pose on the reference: the feed-forward speed alone
C15_OnReference ==
    \E w \in DOMAIN worker :
        /\ worker[w].pc = "publish"
        /\ status.mode = "MODE_BEZIER"
        /\ ValidSegment(worker[w], trajectory)
        /\ PoseError(worker[w], trajectory, odometry) = <<Num(0), Num(0), Num(0)>>
        /\ cmd_vel = Twist(Reference(worker[w], trajectory).V, Num(0))
        /\ cmd_vel # ZeroTwist

\* C16: whenever bezier_position_mode is about to call the sampler, for a
\* retained trajectory with non-decreasing end-times and whatever the run
\* flag, the window duration T = time_stop_nsec - time_start_nsec is
\* positive and the elapsed time t = time_nsec - time_start_nsec is in [0, T)
C16_SamplerDomain ==
    \A w \in DOMAIN worker :
        worker[w].pc = "sample" /\ NonDecreasing(trajectory)
        => LET T == worker[w].time_stop_nsec - worker[w].time_start_nsec
               t == worker[w].time_nsec - worker[w].time_start_nsec
           IN T > 0 /\ 0 <= t /\ t < T

\* C17: every index at which a pass of the locator loop reads
\* curves[index].time_stop, and the index of the segment whose control
\* points are sampled, is less than curves_count, also for a trajectory
\* with curves_count = 0
C17_IndexInTrajectory ==
    [][\A w \in DOMAIN worker :
          /\ worker[w].pc = "loop" /\ Steps(w) /\ LoopCondition(running)
             => worker[w].curve_index < trajectory.curves_count
          /\ Leaves(w, "sample")
             => worker[w].curve_index < trajectory.curves_count]_vars

\* C18: every published command was written in the cycle that publishes
\* it.  The step that brings a thread to the publish writes cmd_vel, as the
\* zero command of the hold branch or as the output of the control law for
\* the locals of that cycle; cmd_vel is written in no other step, so it is
\* that value still when the publish sends it.  A cycle that does not
\* publish (timeout, or a mode other than MODE_BEZIER) goes back to the top
\* of the loop with cmd_vel and the topic as they were
C18_PublishesOwnCommand ==
    [][/\ \A w \in DOMAIN worker :
            /\ worker'[w].pc = "publish" /\ worker[w].pc # "publish"
               => cmd_vel' = IF worker[w].pc = "sample"
                             THEN ControlLaw(worker[w], trajectory, odometry)
                             ELSE ZeroTwist
            /\ Leaves(w, "publish") => pub_cmd_vel' = cmd_vel
            /\ worker[w].pc \in {"wait", "gate"} /\ worker'[w].pc = "top"
               => cmd_vel' = cmd_vel /\ pub_cmd_vel' = pub_cmd_vel
       /\ cmd_vel' # cmd_vel
          => \E w \in DOMAIN worker :
               worker'[w].pc = "publish" /\ worker[w].pc \in InFlight]_vars

\* a cycle at the end of the trajectory has written the zero command over
\* the tracking command of an earlier cycle, which is on the topic still,
\* and is about to publish it
C18_Witness ==
    \E w \in DOMAIN worker :
        /\ worker[w].pc = "publish"
        /\ running # 0
        /\ worker[w].curve_index = trajectory.curves_count
        /\ trajectory.curves_count > 0
        /\ cmd_vel = ZeroTwist
        /\ pub_cmd_vel # NoUpdate
        /\ pub_cmd_vel # ZeroTwist
        /\ ~pub_cmd_vel.linear_x.nan

====
